---- MODULE Spec2Model ----
(***************************************************************************)
(* A model of tools/font.py: the font configuration (FontCfg, as_title),   *)
(* the glyph rasterizer (draw_img), the 1-bit packer (get_1bit) and the    *)
(* driver (gen, __main__).                                                 *)
(*                                                                         *)
(* Two specifications share the variables:                                 *)
(*   Spec      the program run of __main__: gen(body); as_title; gen(title)*)
(*             with get_1bit applied as one step of gen;                   *)
(*   SpecPack  get_1bit alone, one loop step per action, on every canvas   *)
(*             of a bounded size.                                          *)
(* Both drive the same translations of the loop body (RowInit, PixelStep,  *)
(* RowEnd).                                                                *)
(***************************************************************************)
EXTENDS Integers, Sequences, FiniteSets, TLC

VARIABLES
    pc,       \* position in the program ("draw", "save", ... / "for_y", "for_x", ...)
    call,     \* which call of gen in __main__ is running (1: line 79, 2: line 81)
    cfg,      \* the FontCfg object
    im,       \* the canvas: im[y + 1][x + 1] is the RGB triple of pixel (x, y)
    glyphs,   \* the draw.text calls draw_img has made, in order
    y, x,     \* get_1bit: the loop variables
    v, bit,   \* get_1bit: the bit accumulator and the number of bits it holds
    charmap,  \* get_1bit: the values appended so far
    res,      \* gen: the list get_1bit returned
    out,      \* the lines printed to standard output
    files,    \* the files written, in order
    steps     \* history: the steps of the run executed so far, in order

vars == <<pc, call, cfg, im, glyphs, y, x, v, bit, charmap, res, out, files, steps>>

----------------------------------------------------------------------------
(* Bounds of SpecPack: canvases of width 1..MaxW, height 0..MaxH and at    *)
(* most MaxPixels pixels.                                                  *)
MaxW == 12
MaxH == 3
MaxPixels == 12

(* Program constants.                                                      *)
THRESHOLD == 32
BODY_SIZE == 26
BODY_CHAR_SIZE == 25
TITLE_BLOCK_SIZE == 50
TITLE_CHAR_SIZE == 48
HEIGHT_EXTRA == 4
GRID_COLS == 16
GRID_ROWS == 6
ASCII_LEN == 128
PLACEHOLDER == 63

Min(a, b) == IF a < b THEN a ELSE b

Pow2(n) == 2 ^ n

----------------------------------------------------------------------------
(* FontCfg                                                                 *)

(* int(n / 16 * 9): n / 16 is exact in binary floating point and so is the *)
(* product for these n; int() truncates toward zero.                       *)
CellWidth(n) == (n * 9) \div 16

(* Mutant: the grid's columns and rows are exchanged. *)
CanvasSize_Swapped(width, height) == <<width * GRID_ROWS, height * GRID_COLS>>

CanvasSize(width, height) == <<width * GRID_COLS, height * GRID_ROWS>>

(* Mutant: the + 1 of line 9 is left out. *)
BodyWidth_NoPlusOne == CellWidth(BODY_SIZE)

BodyWidth == CellWidth(BODY_SIZE) + 1

FontCfg ==
    [NAME      |-> "JBMONO",
     FONT      |-> "JetBrainsMono.ttf",
     WIDTH     |-> BodyWidth,
     HEIGHT    |-> BODY_SIZE + HEIGHT_EXTRA,
     X_PAD     |-> 0,
     Y_PAD     |-> 0,
     CHAR_SIZE |-> BODY_CHAR_SIZE,
     SIZE      |-> CanvasSize(BodyWidth, BODY_SIZE + HEIGHT_EXTRA)]

(* Mutant: line 20 written like line 9, with + 1. *)
TitleWidth_PlusOne == CellWidth(TITLE_BLOCK_SIZE) + 1

TitleWidth == CellWidth(TITLE_BLOCK_SIZE)

as_title(self) ==
    [NAME       |-> "JBMONO_TITLE",
     FONT       |-> "JetBrainsMono.ttf",
     BLOCK_SIZE |-> TITLE_BLOCK_SIZE,
     WIDTH      |-> TitleWidth,
     HEIGHT     |-> TITLE_BLOCK_SIZE + HEIGHT_EXTRA,
     X_PAD      |-> 0,
     Y_PAD      |-> 0,
     CHAR_SIZE  |-> TITLE_CHAR_SIZE,
     SIZE       |-> CanvasSize(TitleWidth, TITLE_BLOCK_SIZE + HEIGHT_EXTRA)]

repr(self) == [NAME |-> self.NAME, SIZE |-> self.SIZE,
               WIDTH |-> self.WIDTH, HEIGHT |-> self.HEIGHT]

----------------------------------------------------------------------------
(* get_1bit: the loop body                                                 *)

BG == <<0, 0, 0>>
FG == <<255, 255, 255>>

getpixel(image, px, py) == image[py + 1][px + 1]

(* 1 if b[0] > 32 else 0: b[0] is the red channel, the first of the triple *)
OnBit(b) == IF b[1] > THRESHOLD THEN 1 ELSE 0

(* Mutant: the accumulator is not reset at the start of a row. *)
RowInit_NoReset(st) == st

(* lines 55-56 *)
RowInit(st) == [st EXCEPT !.v = 0, !.bit = 0]

(* Mutant: v = 0 of line 63 is left out. *)
PixelStep_KeepsV(st, b) ==
    LET v1   == st.v * 2 + OnBit(b)
        bit1 == st.bit + 1
    IN  IF bit1 = 8
        THEN [charmap |-> Append(st.charmap, v1), v |-> v1, bit |-> 0]
        ELSE [charmap |-> st.charmap, v |-> v1, bit |-> bit1]

(* lines 58-64 *)
PixelStep(st, b) ==
    LET v1   == st.v * 2 + OnBit(b)
        bit1 == st.bit + 1
    IN  IF bit1 = 8
        THEN [charmap |-> Append(st.charmap, v1), v |-> 0, bit |-> 0]
        ELSE [charmap |-> st.charmap, v |-> v1, bit |-> bit1]

(* Mutant: the trailing partial byte of a row is not emitted. *)
RowEnd_NoFlush(st) == st

(* lines 65-66: v << (7 - bit); v and bit are left as they are *)
RowEnd(st) ==
    IF st.bit # 0
    THEN [st EXCEPT !.charmap = Append(st.charmap, st.v * Pow2(7 - st.bit))]
    ELSE st

(* The loops are folds, left to right; the ranges are halved so that the    *)
(* evaluation stays shallow on a canvas hundreds of pixels wide.           *)
RECURSIVE ScanRow(_, _, _, _, _)
ScanRow(st, image, py, lo, hi) ==
    IF lo >= hi THEN st
    ELSE IF hi = lo + 1 THEN PixelStep(st, getpixel(image, lo, py))
    ELSE LET mid == (lo + hi) \div 2
             left == ScanRow(st, image, py, lo, mid)
         IN  IF left.bit >= 0 THEN ScanRow(left, image, py, mid, hi) ELSE left

RECURSIVE ScanRows(_, _, _, _, _)
ScanRows(st, image, w, lo, hi) ==
    IF lo >= hi THEN st
    ELSE IF hi = lo + 1 THEN RowEnd(ScanRow(RowInit(st), image, lo, 0, w))
    ELSE LET mid == (lo + hi) \div 2
             upper == ScanRows(st, image, w, lo, mid)
         IN  IF upper.bit >= 0 THEN ScanRows(upper, image, w, mid, hi) ELSE upper

NewAcc == [charmap |-> <<>>, v |-> 0, bit |-> 0]

get_1bit(c, image) == ScanRows(NewAcc, image, c.SIZE[1], 0, c.SIZE[2]).charmap

----------------------------------------------------------------------------
(* draw_img                                                                *)

ASCII == [i \in 1..ASCII_LEN |-> i - 1]

(* Mutant: DEL (127) counts as printable. *)
isprintable_WithDel(c) == c >= 32

(* str.isprintable on the code points 0..127: space through tilde *)
isprintable(c) == c >= 32 /\ c <= 126

(* s[a:b] of Python: the end is clamped to the length *)
Slice(s, a, b) == SubSeq(s, a + 1, Min(b, Len(s)))

(* line 42 *)
GlyphTable == SelectSeq(ASCII, isprintable) \o <<PLACEHOLDER>>

(* line 43 *)
TableRows ==
    [idx \in 1..GRID_ROWS |->
        Slice(GlyphTable, (idx - 1) * GRID_COLS, (idx - 1) * GRID_COLS + GRID_COLS)]

(* line 48, for the character ch at place idx of line idy *)
TextCall(c, idx, idy, ch) ==
    [xy |-> <<c.WIDTH * idx + c.X_PAD, c.HEIGHT * idy + c.Y_PAD>>, ch |-> ch]

(* line 47 *)
DrawLine(c, idy, line) == [k \in 1..Len(line) |-> TextCall(c, k - 1, idy, line[k])]

(* lines 46-48 *)
RECURSIVE DrawLines(_, _, _)
DrawLines(c, table, idy) ==
    IF idy >= Len(table) THEN <<>>
    ELSE DrawLine(c, idy, table[idy + 1]) \o DrawLines(c, table, idy + 1)

(* What the imaging library leaves on the canvas depends on the font file. *)
(* Three canvases of the configured size stand for it: blank, a            *)
(* checkerboard of FG and BG, and grey ramps that cross the threshold.     *)
Pattern(k, px, py) ==
    CASE k = 1 -> BG
      [] k = 2 -> IF (px + py) % 2 = 0 THEN FG ELSE BG
      [] OTHER -> LET g == (px * 7 + py * 3) % 256 IN <<g, g, g>>

Canvas(k, size) ==
    [py \in 1..size[2] |-> [px \in 1..size[1] |-> Pattern(k, px - 1, py - 1)]]

DrawnCanvases(size) == {Canvas(k, size) : k \in 1..3}

NoImage == <<>>

----------------------------------------------------------------------------
(* gen and __main__                                                        *)

PngPath(c) == <<"assets/img/", c.NAME, ".png">>
RawPath(c) == <<"pkg/kernel/assets/", c.NAME, ".raw">>

(* bytes(res): defined when every value is in range(256) *)
BytesOk(l) == \A i \in 1..Len(l) : l[i] \in 0..255
bytes(l) == [i \in 1..Len(l) |-> l[i] % 256]

Step(op, ok) == [op |-> op, ok |-> ok]

(* An uncaught exception ends the process: nothing is enabled at "error". *)
Raise(op) ==
    /\ pc' = "error"
    /\ steps' = Append(steps, Step(op, FALSE))

(* line 70, lines 34-50 *)
DrawImg ==
    /\ pc = "draw"
    /\ im' \in DrawnCanvases(cfg.SIZE)
    /\ glyphs' = DrawLines(cfg, TableRows, 0)
    /\ pc' = "save"
    /\ steps' = Append(steps, Step("draw_img", TRUE))
    /\ UNCHANGED <<call, cfg, y, x, v, bit, charmap, res, out, files>>

(* line 36: the font cannot be loaded *)
DrawImgFails ==
    /\ pc = "draw"
    /\ Raise("draw_img")
    /\ UNCHANGED <<call, cfg, im, glyphs, y, x, v, bit, charmap, res, out, files>>

(* line 71 *)
SavePng ==
    /\ pc = "save"
    /\ files' = Append(files, [path |-> PngPath(cfg), data |-> im])
    /\ pc' = "pack"
    /\ steps' = Append(steps, Step("save", TRUE))
    /\ UNCHANGED <<call, cfg, im, glyphs, y, x, v, bit, charmap, res, out>>

(* Mutant: the failure of im.save is caught and gen goes on. *)
SavePngFails_Swallowed ==
    /\ pc = "save"
    /\ pc' = "pack"
    /\ steps' = Append(steps, Step("save", FALSE))
    /\ UNCHANGED <<call, cfg, im, glyphs, y, x, v, bit, charmap, res, out, files>>

(* line 71: the path is not writable *)
SavePngFails ==
    /\ pc = "save"
    /\ Raise("save")
    /\ UNCHANGED <<call, cfg, im, glyphs, y, x, v, bit, charmap, res, out, files>>

(* line 72 *)
Pack ==
    /\ pc = "pack"
    /\ res' = get_1bit(cfg, im)
    /\ pc' = "print"
    /\ steps' = Append(steps, Step("get_1bit", TRUE))
    /\ UNCHANGED <<call, cfg, im, glyphs, y, x, v, bit, charmap, out, files>>

(* line 73 *)
PrintLen ==
    /\ pc = "print"
    /\ out' = Append(out, <<repr(cfg), Len(res)>>)
    /\ pc' = "open"
    /\ steps' = Append(steps, Step("print", TRUE))
    /\ UNCHANGED <<call, cfg, im, glyphs, y, x, v, bit, charmap, res, files>>

(* line 74: mode 'wb' creates the file empty *)
OpenRaw ==
    /\ pc = "open"
    /\ files' = Append(files, [path |-> RawPath(cfg), data |-> <<>>])
    /\ pc' = "write"
    /\ steps' = Append(steps, Step("open", TRUE))
    /\ UNCHANGED <<call, cfg, im, glyphs, y, x, v, bit, charmap, res, out>>

(* line 74: the path is not writable *)
OpenRawFails ==
    /\ pc = "open"
    /\ Raise("open")
    /\ UNCHANGED <<call, cfg, im, glyphs, y, x, v, bit, charmap, res, out, files>>

(* line 75, and the return of gen to line 80 or to the end of the program; *)
(* the locals im and res of gen go with it                                 *)
WriteRaw ==
    /\ pc = "write"
    /\ IF BytesOk(res)
       THEN /\ files' = [files EXCEPT ![Len(files)].data = bytes(res)]
            /\ pc' = IF call = 1 THEN "as_title" ELSE "done"
            /\ steps' = Append(steps, Step("write", TRUE))
            /\ im' = NoImage
            /\ res' = <<>>
       ELSE /\ Raise("write")
            /\ UNCHANGED <<im, res, files>>
    /\ UNCHANGED <<call, cfg, glyphs, y, x, v, bit, charmap, out>>

(* lines 80-81 *)
AsTitle ==
    /\ pc = "as_title"
    /\ cfg' = as_title(cfg)
    /\ call' = 2
    /\ pc' = "draw"
    /\ steps' = Append(steps, Step("as_title", TRUE))
    /\ UNCHANGED <<im, glyphs, y, x, v, bit, charmap, res, out, files>>

(* lines 78-79 *)
Init ==
    /\ pc = "draw"
    /\ call = 1
    /\ cfg = FontCfg
    /\ im = NoImage
    /\ glyphs = <<>>
    /\ y = 0 /\ x = 0 /\ v = 0 /\ bit = 0
    /\ charmap = <<>>
    /\ res = <<>>
    /\ out = <<>>
    /\ files = <<>>
    /\ steps = <<>>

Next ==
    \/ DrawImg
    \/ DrawImgFails
    \/ SavePng
    \/ SavePngFails
    \/ Pack
    \/ PrintLen
    \/ OpenRaw
    \/ OpenRawFails
    \/ WriteRaw
    \/ AsTitle

Spec == Init /\ [][Next]_vars

----------------------------------------------------------------------------
(* get_1bit, one loop step per action, on every canvas within the bounds   *)

(* Two pixel values on the two sides of the threshold; in each the green   *)
(* and blue channels lie on the other side of it than the red one.         *)
ProbePixels == {<<32, 255, 255>>, <<33, 0, 0>>}

PackSizes ==
    {s \in (1..MaxW) \X (0..MaxH) : s[1] * s[2] <= MaxPixels}

AllCanvases(size) == [1..size[2] -> [1..size[1] -> ProbePixels]]

Acc == [charmap |-> charmap, v |-> v, bit |-> bit]

W == cfg.SIZE[1]
H == cfg.SIZE[2]

(* line 53 *)
InitPack ==
    /\ pc = "for_y"
    /\ call = 0
    /\ \E s \in PackSizes :
          /\ cfg = [FontCfg EXCEPT !.SIZE = s]
          /\ im \in AllCanvases(s)
    /\ glyphs = <<>>
    /\ y = 0 /\ x = 0 /\ v = 0 /\ bit = 0
    /\ charmap = <<>>
    /\ res = <<>>
    /\ out = <<>>
    /\ files = <<>>
    /\ steps = <<>>

(* lines 54-56: the next row begins *)
ForY ==
    /\ pc = "for_y"
    /\ y < H
    /\ LET st == RowInit(Acc)
       IN  /\ v' = st.v
           /\ bit' = st.bit
           /\ charmap' = st.charmap
    /\ x' = 0
    /\ pc' = "for_x"
    /\ UNCHANGED <<call, cfg, im, glyphs, y, res, out, files, steps>>

(* lines 57-64: the next pixel of the row *)
ForX ==
    /\ pc = "for_x"
    /\ x < W
    /\ LET st == PixelStep(Acc, getpixel(im, x, y))
       IN  /\ v' = st.v
           /\ bit' = st.bit
           /\ charmap' = st.charmap
    /\ x' = x + 1
    /\ UNCHANGED <<pc, call, cfg, im, glyphs, y, res, out, files, steps>>

(* lines 65-66: the row is done *)
ForXDone ==
    /\ pc = "for_x"
    /\ x >= W
    /\ LET st == RowEnd(Acc)
       IN  /\ v' = st.v
           /\ bit' = st.bit
           /\ charmap' = st.charmap
    /\ y' = y + 1
    /\ pc' = "for_y"
    /\ UNCHANGED <<call, cfg, im, glyphs, x, res, out, files, steps>>

(* line 67 *)
Return ==
    /\ pc = "for_y"
    /\ y >= H
    /\ res' = charmap
    /\ pc' = "returned"
    /\ UNCHANGED <<call, cfg, im, glyphs, y, x, v, bit, charmap, out, files, steps>>

NextPack ==
    \/ ForY
    \/ ForX
    \/ ForXDone
    \/ Return

SpecPack == InitPack /\ [][NextPack]_vars

----------------------------------------------------------------------------
(* Properties                                                              *)

CeilDiv(a, b) == (a + b - 1) \div b

(* bit number k of n, bit 0 the least significant *)
BitOf(n, k) == (n \div Pow2(k)) % 2

(* the red value of pixel (px, py) of the canvas *)
Red(px, py) == im[py + 1][px + 1][1]

IsOn(px, py) == IF Red(px, py) > 32 THEN 1 ELSE 0

(* C1: for every canvas of width W >= 1 and height H >= 0, get_1bit      *)
(* returns exactly ceil(W/8) * H values.                                   *)
C1_Length ==
    pc = "returned" => Len(res) = CeilDiv(W, 8) * H

C1_Witness ==
    /\ pc = "returned"
    /\ W > 8 /\ W % 8 # 0 /\ H = 1
    /\ Len(res) = 2

(* C2: bit 7 - (x mod 8) of output byte y * ceil(W/8) + (x div 8) is 1 if  *)
(* the red value of pixel (x, y) is > 32 and 0 if it is <= 32, for every   *)
(* canvas size and every pixel.                                            *)
C2_MsbFirst ==
    pc = "returned" =>
        \A py \in 0..(H - 1) : \A px \in 0..(W - 1) :
            BitOf(res[py * CeilDiv(W, 8) + (px \div 8) + 1], 7 - (px % 8)) = IsOn(px, py)

(* C3: when r = W mod 8 is not 0, the last byte of each row holds the r    *)
(* collected bits in bits 7 down to 8 - r, in pixel order, and its 8 - r   *)
(* low-order bits are zero.                                                *)
C3_PartialByteHigh ==
    (pc = "returned" /\ W % 8 # 0) =>
        \A py \in 0..(H - 1) :
            LET r    == W % 8
                last == res[(py + 1) * CeilDiv(W, 8)]
            IN  /\ \A i \in 0..(r - 1) : BitOf(last, 7 - i) = IsOn(8 * (W \div 8) + i, py)
                /\ last % Pow2(8 - r) = 0

(* C4: when get_1bit begins to scan row y the accumulator is empty         *)
(* (v = 0, bit = 0) and exactly y * ceil(W/8) bytes have been emitted; and *)
(* within the row, after x pixels, x div 8 more bytes have been emitted    *)
(* and the accumulator holds the other x mod 8 bits: no byte holds bits of *)
(* two rows.                                                               *)
C4_RowsStartFresh ==
    pc = "for_x" =>
        /\ x = 0 => (v = 0 /\ bit = 0 /\ Len(charmap) = y * CeilDiv(W, 8))
        /\ bit = x % 8
        /\ Len(charmap) = y * CeilDiv(W, 8) + (x \div 8)

C4_Witness ==
    /\ pc = "for_x" /\ x = 0 /\ y >= 1
    /\ W % 8 # 0
    /\ charmap[Len(charmap)] # 0

(* C5 as stated: the glyph table draw_img has built when it returns has    *)
(* exactly 97 entries, in 6 rows of 16 cells with the last row only        *)
(* partially filled.                                                       *)
C5_Table97 ==
    pc = "save" =>
        /\ Len(GlyphTable) = 97
        /\ Len(TableRows) = 6
        /\ \A r \in 1..5 : Len(TableRows[r]) = 16
        /\ Len(TableRows[6]) < 16

(* C5 amended: when draw_img returns, the glyph table it has built has     *)
(* exactly 96 entries, the 95 printable ASCII characters (space through    *)
(* tilde) and then '?'; they fill 6 rows of 16 cells, every row full;      *)
(* draw_img draws exactly these 96 characters, the k-th (from 0) in the    *)
(* cell of column k mod 16 and row k div 16.                               *)
C5_Table96 ==
    pc = "save" =>
        /\ Len(GlyphTable) = 96
        /\ \A k \in 1..95 : GlyphTable[k] = 31 + k
        /\ GlyphTable[96] = 63
        /\ Len(TableRows) = 6
        /\ \A r \in 1..6 : Len(TableRows[r]) = 16
        /\ Len(glyphs) = 96
        /\ \A k \in 0..95 :
              /\ glyphs[k + 1].ch = GlyphTable[k + 1]
              /\ glyphs[k + 1].xy = <<cfg.WIDTH * (k % 16), cfg.HEIGHT * (k \div 16)>>

C5_Witness ==
    /\ pc = "save" /\ call = 2
    /\ Len(glyphs) = 96
    /\ glyphs[96] = [xy |-> <<28 * 15, 54 * 5>>, ch |-> 63]

(* the length of the raw output of the running call of gen, once packed *)
Packed(n) ==
    /\ pc \in {"print", "open", "write"} => Len(res) = n
    /\ pc \in {"as_title", "done"} => Len(files[Len(files)].data) = n

(* C6 as stated: the body configuration has WIDTH = 16 and HEIGHT = 30,    *)
(* canvas (256, 180), and packs to 5760 bytes.                             *)
C6_Body16 ==
    call = 1 =>
        /\ cfg.WIDTH = 16 /\ cfg.HEIGHT = 30
        /\ cfg.SIZE = <<256, 180>>
        /\ Packed(5760)

(* C6 amended: the body configuration has WIDTH = 15 and HEIGHT = 30,      *)
(* canvas (240, 180), and packs to 5400 bytes.                             *)
C6_Body15 ==
    call = 1 =>
        /\ cfg.WIDTH = 15 /\ cfg.HEIGHT = 30
        /\ cfg.SIZE = <<240, 180>>
        /\ Packed(5400)

C6_Witness ==
    /\ call = 1 /\ pc = "print"
    /\ Len(res) = 5400
    /\ out = <<>>

(* C7: after as_title the configuration has WIDTH = 28 and HEIGHT = 54,    *)
(* canvas (448, 324), and packs to 18144 bytes.                            *)
C7_Title ==
    call = 2 =>
        /\ cfg.WIDTH = 28 /\ cfg.HEIGHT = 54
        /\ cfg.SIZE = <<448, 324>>
        /\ Packed(18144)

C7_Witness ==
    /\ call = 2 /\ pc = "print"
    /\ Len(res) = 18144
    /\ Len(out) = 1

RunOrder ==
    <<"draw_img", "save", "get_1bit", "print", "open", "write",
      "as_title",
      "draw_img", "save", "get_1bit", "print", "open", "write">>

OutputPaths ==
    <<PngPath(FontCfg), RawPath(FontCfg),
      PngPath(as_title(FontCfg)), RawPath(as_title(FontCfg))>>

Failed == steps # <<>> /\ ~steps[Len(steps)].ok

Created == {i \in 1..Len(steps) : steps[i].ok /\ steps[i].op \in {"save", "open"}}

(* C8: the steps of a run are executed in the order body: rasterize, save  *)
(* PNG, pack, write raw; as_title; title: the same. A failed step is the   *)
(* last step of the run: nothing runs after it, nothing is retried, no     *)
(* title output exists unless the whole body pass succeeded, and the files *)
(* written before the failure are still there.                             *)
C8_OrderAndFailure ==
    /\ Len(steps) <= Len(RunOrder)
    /\ \A i \in 1..Len(steps) : steps[i].op = RunOrder[i]
    /\ \A i \in 1..(Len(steps) - 1) : steps[i].ok
    /\ (pc = "error") <=> Failed
    /\ (pc = "done") <=> (Len(steps) = Len(RunOrder) /\ ~Failed)
    /\ Len(files) = Cardinality(Created)
    /\ \A i \in 1..Len(files) : files[i].path = OutputPaths[i]
    /\ \A i \in 1..Len(files) :
          (i < Len(files) \/ pc \in {"as_title", "done"}) => files[i].data # <<>>
    /\ Len(files) > 2 => (Len(steps) > 7 /\ \A i \in 1..7 : steps[i].ok)

C8_Witness ==
    /\ pc = "error" /\ call = 2
    /\ Len(files) = 3
    /\ steps[Len(steps)] = Step("open", FALSE)
    /\ Len(files[2].data) = 5400

(* C9: every value get_1bit appends is in 0..255, and between pixels the   *)
(* accumulator satisfies 0 <= bit <= 7 and 0 <= v < 2^bit.                 *)
C9_ByteRange ==
    /\ \A i \in 1..Len(charmap) : charmap[i] \in 0..255
    /\ \A i \in 1..Len(res) : res[i] \in 0..255
    /\ pc \in {"for_x", "for_y"} => (bit \in 0..7 /\ v >= 0 /\ v < Pow2(bit))

C9_Witness ==
    /\ pc = "returned"
    /\ W > 8 /\ W % 8 # 0
    /\ Len(res) = 2
    /\ res[1] = 255
    /\ res[2] = Pow2(7) - Pow2(7 - (W % 8))

(* C10: both canvases the program packs have a width that is a multiple of *)
(* 8, and no row of them ends with bits left in the accumulator: the       *)
(* branch of line 65-66 is not taken.                                      *)
C10_NoPartialByte ==
    pc \in {"pack", "print"} =>
        /\ cfg.SIZE[1] % 8 = 0
        /\ \A py \in 0..(cfg.SIZE[2] - 1) :
              ScanRow(RowInit(NewAcc), im, py, 0, cfg.SIZE[1]).bit = 0

C10_Witness ==
    /\ pc = "print" /\ call = 2
    /\ Len(out) = 1
    /\ \E i \in 1..Len(res) : res[i] # 0

====
